---------------------------- MODULE Spec2Model ----------------------------
(***************************************************************************)
(* A model of the two HTML -> .docx converters of this repository:         *)
(*   scripts/build-resume-docx.py       (the resume pipeline)              *)
(*   scripts/build-coverletter-docx.py  (the cover-letter pipeline)        *)
(*                                                                         *)
(* One behaviour is one run of one of the two command lines: the input     *)
(* file is read and parsed into the `data` dictionary, build_docx walks    *)
(* that dictionary appending tables and paragraphs to an in-memory         *)
(* document, doc.save writes it, and the entry point prints "Generated".   *)
(* An uncaught Python exception ends the run with exit status 1.           *)
(*                                                                         *)
(* Texts are sequences of tokens; the token WS stands for a run of         *)
(* whitespace, so that str.strip() and the truth test `if text:` are       *)
(* modelled by what they do.  An absent value (Python None) is the empty   *)
(* sequence and a present one a one-element sequence.                      *)
(***************************************************************************)
EXTENDS Integers, Sequences, FiniteSets, TLC

\* ------------------------------------------------------------------------
\* Bounds of the model (sizes of the inputs that are enumerated)
\* ------------------------------------------------------------------------
MaxContacts == 3
MaxSkills == 3
MaxJobs == 2
MaxSections == 2
MaxRecip == 3
MaxParas == 2

\* ------------------------------------------------------------------------
\* Generic helpers
\* ------------------------------------------------------------------------
None == <<>>
Some(x) == <<x>>
Val(o) == o[1]

\* All sequences over S of length at most n.
SeqUpTo(S, n) == UNION {[1..k -> S] : k \in 0..n}

\* ------------------------------------------------------------------------
\* Text: str.strip, str.join
\* ------------------------------------------------------------------------
WS == " "

RECURSIVE lstrip(_)
lstrip(t) == IF t # <<>> /\ Head(t) = WS THEN lstrip(Tail(t)) ELSE t

RECURSIVE rstrip(_)
rstrip(t) ==
    IF t # <<>> /\ t[Len(t)] = WS THEN rstrip(SubSeq(t, 1, Len(t) - 1)) ELSE t

\* str.strip(): leading and trailing whitespace removed.
strip(t) == rstrip(lstrip(t))

RECURSIVE join(_, _)
\* separator.join(parts)
join(sep, parts) ==
    IF parts = <<>> THEN <<>>
    ELSE IF Len(parts) = 1 THEN Head(parts)
    ELSE Head(parts) \o sep \o join(sep, Tail(parts))

\* ------------------------------------------------------------------------
\* The parsed HTML tree (BeautifulSoup)
\* ------------------------------------------------------------------------
\* A text node (NavigableString).
Str(t) == [name |-> "#text", class |-> {}, kids |-> <<>>, text |-> t]
\* An element (Tag) with its class attribute and its children.
El(name, cls, kids) == [name |-> name, class |-> cls, kids |-> kids, text |-> <<>>]

RECURSIVE descendants(_)
\* Tag.descendants: every node below `node`, in document order: the first
\* child, what is below it, then the same for the children after it.
descendants(node) ==
    IF node.kids = <<>> THEN <<>>
    ELSE <<Head(node.kids)>>
         \o descendants(Head(node.kids))
         \o descendants([node EXCEPT !.kids = Tail(@)])

\* Whether a node is a tag `name` carrying class `cls` ("" = any class).
matches(n, name, cls) == n.name = name /\ (cls = "" \/ cls \in n.class)

\* Tag.find_all(name, class_=cls)
find_all(node, name, cls) ==
    SelectSeq(descendants(node), LAMBDA n : matches(n, name, cls))

\* Tag.find_all(name, recursive=False)
find_all_direct(node, name) ==
    SelectSeq(node.kids, LAMBDA n : matches(n, name, ""))

\* Tag.find(name, class_=cls): the first match, or None.
find(node, name, cls) ==
    LET all == find_all(node, name, cls)
    IN  IF all = <<>> THEN None ELSE Some(Head(all))

\* The strings get_text(strip=True) yields: every text node at or below the
\* node, stripped, the empty ones dropped.
all_strings(node) ==
    LET under == IF node.name = "#text" THEN <<node>> ELSE descendants(node)
        strs == SelectSeq(under, LAMBDA n : n.name = "#text")
        stripped == [i \in 1..Len(strs) |-> strip(strs[i].text)]
    IN  SelectSeq(stripped, LAMBDA s : s # <<>>)

\* get_text(sep, strip=True)
get_text(node, sep) == join(sep, all_strings(node))

\* ------------------------------------------------------------------------
\* Extraction (both scripts)
\* ------------------------------------------------------------------------
\* A one-token text: a Python string literal without inner whitespace runs.
Lit(s) == <<s>>

\* The outcome of a call: exc is "" when it returned val, and the name of the
\* exception it raised otherwise.
Returned(v) == [exc |-> "", val |-> v]
Raised(e) == [exc |-> e, val |-> <<>>]

\* `for child in contact_row.children: text = child.get_text(strip=True);
\*  if text: contacts.append(text)`
contact_texts(contact_row) ==
    LET texts == [i \in 1..Len(contact_row.kids) |->
                     get_text(contact_row.kids[i], <<>>)]
    IN  SelectSeq(texts, LAMBDA t : t # <<>>)

\* What the extractors read inside the header block: name, title, contacts.
\* Calling .find / .get_text on the None that find returned raises
\* AttributeError.
header_fields(header) ==
    LET h1 == find(header, "h1", "") IN
    IF h1 = None THEN Raised("AttributeError") ELSE
    LET title == find(header, "div", "title") IN
    IF title = None THEN Raised("AttributeError") ELSE
    LET contact_row == find(header, "div", "contact-row") IN
    IF contact_row = None THEN Raised("AttributeError") ELSE
    Returned([name |-> get_text(Val(h1), <<>>),
              title |-> get_text(Val(title), <<>>),
              contacts |-> contact_texts(Val(contact_row))])

\* A variant of parse_header that falls back to empty fields when the header
\* block is missing.
parse_header_default(soup) ==
    LET header == find(soup, "div", "header") IN
    IF header = None
    THEN Returned([name |-> <<>>, title |-> <<>>, contacts |-> <<>>])
    ELSE header_fields(Val(header))

\* The header part of parse_resume: `header = soup.find("div", class_="header")`
\* and the reads inside it.
parse_header(soup) ==
    LET header == find(soup, "div", "header") IN
    IF header = None THEN Raised("AttributeError")
    ELSE header_fields(Val(header))

\* The same lines of parse_cover_letter.
cover_parse_header(soup) == parse_header(soup)

\* `el.get_text(strip=True) if el else ""`
text_or_empty(el) == IF el = None THEN <<>> ELSE get_text(Val(el), <<>>)

\* A variant of job_entry that sets job["company"] only when the span exists.
job_entry_sparse(title_el, company_el, date_el, lis) ==
    IF company_el = None
    THEN [title |-> text_or_empty(title_el),
          date |-> text_or_empty(date_el),
          bullets |-> [i \in 1..Len(lis) |-> get_text(lis[i], <<>>)]]
    ELSE [title |-> text_or_empty(title_el),
          company |-> text_or_empty(company_el),
          date |-> text_or_empty(date_el),
          bullets |-> [i \in 1..Len(lis) |-> get_text(lis[i], <<>>)]]

\* The dictionary _parse_job fills from the three spans and the list items.
job_entry(title_el, company_el, date_el, lis) ==
    [title |-> text_or_empty(title_el),
     company |-> text_or_empty(company_el),
     date |-> text_or_empty(date_el),
     bullets |-> [i \in 1..Len(lis) |-> get_text(lis[i], <<>>)]]

\* A variant of _parse_job that treats a missing job-header as a header
\* without spans.
_parse_job_lenient(job_div) ==
    LET header == find(job_div, "div", "job-header")
        bullets == find(job_div, "ul", "job-bullets")
    IN  Returned(job_entry(IF header = None THEN None
                           ELSE find(Val(header), "span", "job-title"),
                           IF header = None THEN None
                           ELSE find(Val(header), "span", "job-company"),
                           IF header = None THEN None
                           ELSE find(Val(header), "span", "job-date"),
                           IF bullets = None THEN <<>>
                           ELSE find_all(Val(bullets), "li", "")))

_parse_job(job_div) ==
    LET header == find(job_div, "div", "job-header") IN
    IF header = None THEN Raised("AttributeError") ELSE
    LET bullets == find(job_div, "ul", "job-bullets") IN
    Returned(job_entry(find(Val(header), "span", "job-title"),
                       find(Val(header), "span", "job-company"),
                       find(Val(header), "span", "job-date"),
                       IF bullets = None THEN <<>>
                       ELSE find_all(Val(bullets), "li", "")))

\* The list the calls of a loop appended to, or the exception of the first
\* call that raised (which ends the loop and the extraction).
collect(rs) ==
    IF \E i \in 1..Len(rs) : rs[i].exc # ""
    THEN Raised(rs[CHOOSE i \in 1..Len(rs) :
                       /\ rs[i].exc # ""
                       /\ \A j \in 1..(i - 1) : rs[j].exc = ""].exc)
    ELSE Returned([i \in 1..Len(rs) |-> rs[i].val])

\* _parse_job on each block of a list of job blocks.
parse_each_job(divs) == [i \in 1..Len(divs) |-> _parse_job(divs[i])]

\* `for job_div in section.find_all("div", class_="job"): list.append(_parse_job(job_div))`
parse_jobs(section) == collect(parse_each_job(find_all(section, "div", "job")))

SEC_EXPERIENCE == <<"Professional", WS, "Experience">>
SEC_MILITARY == <<"Military", WS, "Service">>
SEC_EDUCATION == <<"Education", WS, "&", WS, "Certifications">>

\* `[item.get_text(" ", strip=True) for item in column.find_all("div", class_="cert-item")]`
cert_items(column) ==
    LET items == find_all(column, "div", "cert-item")
    IN  [i \in 1..Len(items) |-> get_text(items[i], <<WS>>)]

\* The "Education & Certifications" branch: the two lists, replacing what
\* data["education"] held.  columns[0] / columns[1] raise IndexError when the
\* two-column block has fewer direct <div> children.
parse_education(section) ==
    LET two_col == find(section, "div", "two-column") IN
    IF two_col = None THEN Raised("AttributeError") ELSE
    LET columns == find_all_direct(Val(two_col), "div") IN
    IF Len(columns) < 2 THEN Raised("IndexError") ELSE
    Returned([left |-> cert_items(columns[1]),
              right |-> cert_items(columns[2])])

\* A variant of append_jobs in which the jobs of a section replace the list
\* instead of extending it.
append_jobs_replacing(acc, key, r) ==
    IF r.exc # "" THEN [acc EXCEPT !.exc = r.exc]
    ELSE [acc EXCEPT ![key] = r.val]

\* `data[key].append(job)` for each job parsed, unless _parse_job raised.
append_jobs(acc, key, r) ==
    IF r.exc # "" THEN [acc EXCEPT !.exc = r.exc]
    ELSE [acc EXCEPT ![key] = @ \o r.val]

\* `data["education"]["left"] = []` ... : the two lists replace the old ones.
set_education(acc, r) ==
    IF r.exc # "" THEN [acc EXCEPT !.exc = r.exc]
    ELSE [acc EXCEPT !.education = r.val]

\* The branch of the loop body taken for a section titled title_text.
parse_titled_section(section, title_text, acc) ==
    IF title_text = SEC_EXPERIENCE
    THEN append_jobs(acc, "jobs", parse_jobs(section))
    ELSE IF title_text = SEC_MILITARY
    THEN append_jobs(acc, "military", parse_jobs(section))
    ELSE IF title_text = SEC_EDUCATION
    THEN set_education(acc, parse_education(section))
    ELSE acc

\* One iteration of `for section in sections:` on the lists built so far.
parse_section(section, acc) ==
    LET title_el == find(section, "div", "section-title") IN
    IF title_el = None THEN acc
    ELSE parse_titled_section(section, get_text(Val(title_el), <<>>), acc)

RECURSIVE parse_sections(_, _)
\* `for section in sections:`, stopping at the first exception.
parse_sections(sections, acc) ==
    IF sections = <<>> \/ acc.exc # "" THEN acc
    ELSE parse_sections(Tail(sections), parse_section(Head(sections), acc))

\* A variant of resume_data that aborts when a named section gave nothing.
resume_data_strict(hd, skill_items, acc) ==
    IF acc.exc # "" THEN Raised(acc.exc) ELSE
    IF acc.jobs = <<>> \/ acc.military = <<>> \/ DOMAIN acc.education = {}
    THEN Raised("AttributeError") ELSE
    Returned([name |-> hd.name,
              title |-> hd.title,
              contacts |-> hd.contacts,
              skills |-> [i \in 1..Len(skill_items) |->
                             get_text(skill_items[i], <<>>)],
              jobs |-> acc.jobs,
              military |-> acc.military,
              education |-> acc.education])

\* `return data` of parse_resume, unless the sections loop raised.
resume_data(hd, skill_items, acc) ==
    IF acc.exc # "" THEN Raised(acc.exc) ELSE
    Returned([name |-> hd.name,
              title |-> hd.title,
              contacts |-> hd.contacts,
              skills |-> [i \in 1..Len(skill_items) |->
                             get_text(skill_items[i], <<>>)],
              jobs |-> acc.jobs,
              military |-> acc.military,
              education |-> acc.education])

\* parse_resume(html_path); `file` is the content of the file at html_path,
\* None when there is no such file (open raises FileNotFoundError).
parse_resume(file) ==
    IF file = None THEN Raised("FileNotFoundError") ELSE
    LET soup == Val(file)
        hd == parse_header(soup)
    IN
    IF hd.exc # "" THEN Raised(hd.exc) ELSE
    LET skills_div == find(soup, "div", "skills-grid") IN
    IF skills_div = None THEN Raised("AttributeError") ELSE
    resume_data(hd.val,
                find_all(Val(skills_div), "div", "skill-item"),
                parse_sections(find_all(soup, "div", "section"),
                               [exc |-> "", jobs |-> <<>>, military |-> <<>>,
                                education |-> <<>>]))

\* The recipient lines: the children of the recipient block that are neither
\* the badge span nor a <br>, by their stripped text, the empty ones dropped.
recipient_lines(recipient) ==
    LET kept == SelectSeq(recipient.kids, LAMBDA c :
                    /\ ~(c.name = "span" /\ "company-badge" \in c.class)
                    /\ c.name # "br")
        texts == [i \in 1..Len(kept) |-> get_text(kept[i], <<>>)]
    IN  SelectSeq(texts, LAMBDA t : t # <<>>)

\* parse_cover_letter(html_path)
parse_cover_letter(file) ==
    IF file = None THEN Raised("FileNotFoundError") ELSE
    LET soup == Val(file)
        hd == cover_parse_header(soup)
    IN
    IF hd.exc # "" THEN Raised(hd.exc) ELSE
    LET content == find(soup, "div", "content") IN
    IF content = None THEN Raised("AttributeError") ELSE
    LET date == find(Val(content), "div", "date") IN
    IF date = None THEN Raised("AttributeError") ELSE
    LET recipient == find(Val(content), "div", "recipient") IN
    IF recipient = None THEN Raised("AttributeError") ELSE
    LET badge == find(Val(recipient), "span", "company-badge")
        salutation == find(Val(content), "div", "salutation")
    IN
    IF salutation = None THEN Raised("AttributeError") ELSE
    LET body == find(Val(content), "div", "body") IN
    IF body = None THEN Raised("AttributeError") ELSE
    LET ps == find_all(Val(body), "p", "")
        closing == find(Val(content), "div", "closing")
    IN
    IF closing = None THEN Raised("AttributeError") ELSE
    LET regards == find(Val(closing), "div", "regards")
        signature == find(Val(closing), "div", "signature")
        credential == find(Val(closing), "div", "credential")
    IN
    IF regards = None \/ signature = None \/ credential = None
    THEN Raised("AttributeError") ELSE
    Returned([name |-> hd.val.name,
              title |-> hd.val.title,
              contacts |-> hd.val.contacts,
              date |-> get_text(Val(date), <<>>),
              badge |-> text_or_empty(badge),
              recipient_lines |-> recipient_lines(Val(recipient)),
              salutation |-> get_text(Val(salutation), <<>>),
              paragraphs |-> [i \in 1..Len(ps) |-> get_text(ps[i], <<>>)],
              regards |-> get_text(Val(regards), <<>>),
              signature |-> get_text(Val(signature), <<>>),
              credential |-> get_text(Val(credential), <<>>)])

\* ------------------------------------------------------------------------
\* The document under construction (python-docx)
\* ------------------------------------------------------------------------
\* A document is the sequence of its body's blocks: paragraphs and tables.
\* Of the formatting, the model keeps what tells the blocks apart: alignment,
\* hanging indent, bottom border, and per run bold/italic/all-caps/color/size.
\* Spacing, margins, shading and cell widths are left out.

\* doc.add_paragraph() / a cell's first paragraph: no runs yet.
add_paragraph == [kind |-> "p", align |-> "", indent |-> FALSE,
                  border |-> "", runs |-> <<>>]

\* doc.add_table(rows, cols): cells are addressed (row, col) from 0 and each
\* starts with one empty paragraph.
add_table(rows, cols) ==
    [kind |-> "tbl", rows |-> rows, cols |-> cols,
     cells |-> [rc \in (0..(rows - 1)) \X (0..(cols - 1)) |-> <<add_paragraph>>]]

\* add_run of build-coverletter-docx.py; color "" and size 0 stand for the
\* defaults (None).
add_run(p, text, bold, italic, color, size) ==
    [p EXCEPT !.runs = Append(@, [text |-> text, bold |-> bold,
                                  italic |-> italic, caps |-> FALSE,
                                  color |-> color, size |-> size])]

\* add_run of build-resume-docx.py (no italic; font_name is never passed).
resume_add_run(p, text, bold, color, size) ==
    add_run(p, text, bold, FALSE, color, size)

\* `run.font.all_caps = True` on the run just added.
all_caps(p) == [p EXCEPT !.runs[Len(p.runs)].caps = TRUE]

aligned(p, a) == [p EXCEPT !.align = a]

\* add_bottom_border(paragraph, color_hex)
add_bottom_border(p, color_hex) == [p EXCEPT !.border = color_hex]

\* table.cell(r, c).paragraphs[0], read and replaced.
cell_first(t, r, c) == t.cells[<<r, c>>][1]
set_cell_first(t, r, c, p) == [t EXCEPT !.cells[<<r, c>>][1] = p]

\* A variant of truthy that takes every string, the empty one too.
truthy_not_none(text) == TRUE

\* The truth value of a string, as in `if data["badge"]:` and
\* `if job["company"]:`: the empty string is false.
truthy(text) == text # <<>>

SPACER == Lit("    ")
CHECK_MARK == Lit("[U+2713] ")
TRIANGLE == Lit("[U+25B8] ")
SEPARATOR == Lit(" | ")

RECURSIVE contact_line_leading(_, _, _)
\* A variant of contact_line that puts the spacer before every item.
contact_line_leading(p, contacts, i) ==
    IF i > Len(contacts) THEN p
    ELSE contact_line_leading(
             add_run(add_run(p, SPACER, FALSE, FALSE, "WHITE", 9),
                     contacts[i], FALSE, FALSE, "WHITE", 9),
             contacts, i + 1)

RECURSIVE contact_line(_, _, _)
\* `for i, contact in enumerate(data["contacts"]):
\*      if i > 0: add_run(p, "    ", ...)
\*      add_run(p, contact, ...)`        (i counts from 1 here)
contact_line(p, contacts, i) ==
    IF i > Len(contacts) THEN p
    ELSE LET q == IF i > 1 THEN add_run(p, SPACER, FALSE, FALSE, "WHITE", 9)
                  ELSE p
         IN  contact_line(add_run(q, contacts[i], FALSE, FALSE, "WHITE", 9),
                          contacts, i + 1)

\* The header block of either script: a 1x1 table holding the name, the
\* all-caps title and the contact line.
header_table(data) ==
    LET name == add_run(aligned(add_paragraph, "center"),
                        data.name, TRUE, FALSE, "WHITE", 22)
        title == all_caps(add_run(aligned(add_paragraph, "center"),
                                  data.title, FALSE, FALSE, "WHITE", 11))
        contacts == contact_line(aligned(add_paragraph, "center"),
                                 data.contacts, 1)
    IN  [add_table(1, 1) EXCEPT !.cells[<<0, 0>>] = <<name, title, contacts>>]

\* _add_section_heading(doc, text)
_add_section_heading(doc, text) ==
    Append(doc, add_bottom_border(
                    resume_add_run(add_paragraph, text, TRUE, "PRIMARY", 12),
                    "0D6E6E"))

\* _add_spacer(doc)
_add_spacer(doc) == Append(doc, add_paragraph)

\* build_docx of the resume, lines 204-272: the header table and the spacer.
resume_header(doc, data) == Append(Append(doc, header_table(data)), add_paragraph)

RECURSIVE fill_skills(_, _, _)
\* `for i, skill in enumerate(skills):` (i counts from 0 as in the source):
\* two runs are added to the first paragraph of cell (i // 2, i % 2).
fill_skills(t, skills, i) ==
    IF i >= Len(skills) THEN t
    ELSE fill_skills(
             [t EXCEPT !.cells[<<i \div 2, i % 2>>][1] =
                 resume_add_run(
                     resume_add_run(@, CHECK_MARK, TRUE, "PRIMARY", 10),
                     skills[i + 1], FALSE, "DARK", 10)],
             skills, i + 1)

\* A variant of rows_needed that rounds down.
rows_needed_floor(skills) == Len(skills) \div 2

\* rows_needed = (len(skills) + 1) // 2
rows_needed(skills) == (Len(skills) + 1) \div 2

\* build_docx of the resume, lines 277-294: heading, skills grid, spacer.
resume_key_skills(doc, data) ==
    LET skills == data.skills
        skills_table == add_table(rows_needed(skills), 2)
    IN  _add_spacer(Append(_add_section_heading(doc, Lit("KEY SKILLS")),
                           fill_skills(skills_table, skills, 0)))

RECURSIVE add_bullets(_, _, _)
\* `for bullet in job["bullets"]:` one hanging-indent paragraph per bullet.
add_bullets(doc, bullets, i) ==
    IF i > Len(bullets) THEN doc
    ELSE LET p == [add_paragraph EXCEPT !.indent = TRUE]
             q == resume_add_run(
                      resume_add_run(p, TRIANGLE, FALSE, "SECONDARY", 9),
                      bullets[i], FALSE, "DARK", 9)
         IN  add_bullets(Append(doc, q), bullets, i + 1)

\* _add_job_entry(doc, job, page_width_inches)
_add_job_entry(doc, job) ==
    LET job_table == add_table(1, 2)
        t == resume_add_run(cell_first(job_table, 0, 0),
                            job.title, TRUE, "ACCENT", 10)
        left == IF truthy(job.company)
                THEN resume_add_run(
                         resume_add_run(t, SEPARATOR, FALSE, "DARK", 10),
                         job.company, TRUE, "PRIMARY", 10)
                ELSE t
        right == resume_add_run(aligned(cell_first(job_table, 0, 1), "right"),
                                job.date, FALSE, "666666", 9)
        filled == set_cell_first(set_cell_first(job_table, 0, 0, left),
                                 0, 1, right)
    IN  add_bullets(Append(doc, filled), job.bullets, 1)

RECURSIVE add_job_entries_reversed(_, _, _)
\* A variant of add_job_entries that walks the list from its end.
add_job_entries_reversed(doc, jobs, i) ==
    IF i > Len(jobs) THEN doc
    ELSE add_job_entries_reversed(
             _add_job_entry(doc, jobs[Len(jobs) + 1 - i]), jobs, i + 1)

RECURSIVE add_job_entries(_, _, _)
\* `for job in jobs: _add_job_entry(doc, job, page_width_inches)`
add_job_entries(doc, jobs, i) ==
    IF i > Len(jobs) THEN doc
    ELSE add_job_entries(_add_job_entry(doc, jobs[i]), jobs, i + 1)

\* build_docx of the resume, lines 299-302.
resume_experience(doc, data) ==
    add_job_entries(_add_section_heading(doc, Lit("PROFESSIONAL EXPERIENCE")),
                    data.jobs, 1)

\* build_docx of the resume, lines 307-310.
resume_military(doc, data) ==
    add_job_entries(_add_section_heading(doc, Lit("MILITARY SERVICE")),
                    data.military, 1)

\* dict.get(key, []) on data["education"]
get_or_empty(d, key) == IF key \in DOMAIN d THEN d[key] ELSE <<>>

\* The label paragraph of a column followed by one paragraph per item.
edu_column(label, items) ==
    <<resume_add_run(add_paragraph, label, TRUE, "DARK", 10)>>
    \o [i \in 1..Len(items) |->
           resume_add_run(add_paragraph, items[i], FALSE, "DARK", 9)]

\* build_docx of the resume, lines 315-342: the two-column education table.
resume_education(doc, data) ==
    LET edu_table == add_table(1, 2)
        left == edu_column(Lit("Education"),
                           get_or_empty(data.education, "left"))
        right == edu_column(Lit("Certifications"),
                            get_or_empty(data.education, "right"))
    IN  Append(_add_section_heading(doc, Lit("EDUCATION & CERTIFICATIONS")),
               [edu_table EXCEPT !.cells[<<0, 0>>] = left,
                                 !.cells[<<0, 1>>] = right])

\* build_docx of the cover letter, lines 141-200: the header table.
cover_header(doc, data) == Append(doc, header_table(data))

\* build_docx of the cover letter, lines 205-209: the right-aligned date.
cover_date(doc, data) ==
    Append(doc, add_run(aligned(add_paragraph, "right"),
                        data.date, FALSE, FALSE, "GRAY", 10))

\* Whether the loop `for line in data["recipient_lines"]` emphasizes `line`:
\* `if line == data["recipient_lines"][0]`.
is_first_line(line, lines) == line = lines[1]

\* build_docx of the cover letter, lines 215-229: the badge paragraph when
\* the badge is non-empty, then one paragraph per recipient line.
cover_recipient(doc, data) ==
    LET lines == data.recipient_lines
        badged == IF truthy(data.badge)
                  THEN Append(doc, add_run(add_paragraph, data.badge,
                                           TRUE, FALSE, "PRIMARY", 9))
                  ELSE doc
    IN  badged \o [i \in 1..Len(lines) |->
                      IF is_first_line(lines[i], lines)
                      THEN add_run(add_paragraph, lines[i],
                                   TRUE, FALSE, "PRIMARY", 11)
                      ELSE add_run(add_paragraph, lines[i],
                                   FALSE, FALSE, "DARK", 11)]

\* build_docx of the cover letter, lines 234-237.
cover_salutation(doc, data) ==
    Append(doc, add_run(add_paragraph, data.salutation,
                        TRUE, FALSE, "ACCENT", 11))

\* build_docx of the cover letter, lines 242-247: justified paragraphs.
cover_body(doc, data) ==
    doc \o [i \in 1..Len(data.paragraphs) |->
               add_run(aligned(add_paragraph, "justify"), data.paragraphs[i],
                       FALSE, FALSE, "DARK", 11)]

\* build_docx of the cover letter, lines 252-263: regards, signature,
\* credential.
cover_closing(doc, data) ==
    doc \o <<add_run(add_paragraph, data.regards, FALSE, TRUE, "DARK", 11),
             add_run(add_paragraph, data.signature, TRUE, FALSE, "PRIMARY", 14),
             add_run(add_paragraph, data.credential, FALSE, FALSE, "GRAY", 10)>>

\* build_docx of the cover letter, lines 268-280: divider and links line.
cover_footer(doc) ==
    LET divider == add_bottom_border(aligned(add_paragraph, "center"), "E8F4F4")
        l1 == add_run(aligned(add_paragraph, "center"),
                      Lit("View Resume: "), FALSE, FALSE, "GRAY", 9)
        l2 == add_run(l1, Lit("mattbfit.net/resume.html"),
                      TRUE, FALSE, "PRIMARY", 9)
        l3 == add_run(l2, Lit("  |  "), FALSE, FALSE, "GRAY", 9)
        l4 == add_run(l3, Lit("Training Videos: "), FALSE, FALSE, "GRAY", 9)
        l5 == add_run(l4, Lit("mattbfit.net/#showcase"),
                      TRUE, FALSE, "PRIMARY", 9)
    IN  doc \o <<divider, l5>>

\* ------------------------------------------------------------------------
\* The input files that are enumerated
\* ------------------------------------------------------------------------
Div(cls, kids) == El("div", {cls}, kids)
DivT(cls, t) == Div(cls, <<Str(t)>>)
Span(cls, t) == El("span", {cls}, <<Str(t)>>)
\* The whitespace between two tags.
Gap == Str(<<WS>>)
Soup(parts) == El("[document]", {}, parts)

H1 == El("h1", {}, <<Str(<<"Jane", WS, "Doe">>)>>)
TitleDiv == DivT("title", <<WS, "Operations", WS, "Lead", WS>>)
ContactKidPool ==
    {Gap,
     El("span", {}, <<Str(<<"jane@example.org">>)>>),
     El("a", {}, <<Str(<<WS, "555-0100">>)>>)}
ContactRow(kids) == Div("contact-row", kids)
DefaultContactRow ==
    ContactRow(<<El("span", {}, <<Str(<<"jane@example.org">>)>>), Gap,
                 El("a", {}, <<Str(<<WS, "555-0100">>)>>)>>)

\* The header block: absent, present with any of its three parts missing, or
\* complete with every contact row up to MaxContacts children.
HeaderSet ==
    {None}
    \cup {Some(Div("header", h \o t \o c)) :
              h \in {None, Some(H1)}, t \in {None, Some(TitleDiv)},
              c \in {None, Some(DefaultContactRow)}}
    \cup {Some(Div("header", <<H1, TitleDiv, ContactRow(k)>>)) :
              k \in SeqUpTo(ContactKidPool, MaxContacts)}
DefaultHeader == Some(Div("header", <<H1, TitleDiv, DefaultContactRow>>))

SkillPool ==
    {DivT("skill-item", <<"Kubernetes">>),
     DivT("skill-item", <<WS, "Incident", WS, "Response">>)}
SkillsSet ==
    {None} \cup {Some(Div("skills-grid", k)) : k \in SeqUpTo(SkillPool, MaxSkills)}
DefaultSkills ==
    Some(Div("skills-grid", <<DivT("skill-item", <<"Kubernetes">>), Gap,
                              DivT("skill-item", <<"Terraform">>)>>))

\* A job block: hdr is None (no job-header) or Some(the header's spans);
\* bullets is None (no list) or Some(the items' texts).
JobDiv(hdr, bullets) ==
    Div("job",
        (IF hdr = None THEN <<>> ELSE <<Div("job-header", Val(hdr))>>)
        \o (IF bullets = None THEN <<>>
            ELSE <<El("ul", {"job-bullets"},
                      [i \in 1..Len(Val(bullets)) |->
                          El("li", {}, <<Str(Val(bullets)[i])>>)])>>))
JobFull ==
    JobDiv(Some(<<Span("job-title", <<"SRE">>), Span("job-company", <<"Acme">>),
                  Span("job-date", <<"2020", WS, "-", WS, "2024">>)>>),
           Some(<<<<"Ran", WS, "on-call">>, <<WS, "Cut", WS, "costs", WS>>>>))
JobNoCompany ==
    JobDiv(Some(<<Span("job-title", <<"Lead">>), Span("job-date", <<"2019">>)>>),
           Some(<<<<"Led", WS, "team">>>>))
JobBare == JobDiv(Some(<<>>), None)
JobNoHeader == JobDiv(None, Some(<<<<"Orphan">>>>))
JobMilitary ==
    JobDiv(Some(<<Span("job-title", <<"Sergeant">>),
                  Span("job-company", <<"Army">>)>>),
           Some(<<<<"Served">>>>))
JobPool == {JobFull, JobNoCompany, JobBare, JobNoHeader}

\* The three spans of a job-header, and those of them whose position is in S.
JobSpans ==
    <<Span("job-title", <<WS, "SRE">>), Span("job-company", <<"Acme">>),
      Span("job-date", <<"2020", WS, "-", WS, "2024">>)>>
SpansAt(S) ==
    LET at == SelectSeq([i \in 1..Len(JobSpans) |-> i], LAMBDA i : i \in S)
    IN  [k \in 1..Len(at) |-> JobSpans[at[k]]]
\* Every job block: without job-header, or with a job-header holding any
\* subset of the three spans; without bullet list, or with a list of two.
JobSubsetPool ==
    {JobDiv(h, b) :
         h \in {None} \cup {Some(SpansAt(S)) : S \in SUBSET (1..Len(JobSpans))},
         b \in {None, Some(<<<<"Ran", WS, "on-call">>, <<WS, "Cut", WS, "costs">>>>)}}

\* A section block with its optional section-title.
Section(title, kids) ==
    Div("section",
        (IF title = None THEN <<>> ELSE <<DivT("section-title", Val(title))>>)
        \o kids)
CertItem(t) == DivT("cert-item", t)
\* "B.S." and "CS" are two strings of one item: <strong>B.S.</strong> CS
EduColumn ==
    Div("col", <<El("strong", {}, <<Str(<<"Education">>)>>),
                 Div("cert-item", <<El("strong", {}, <<Str(<<"B.S.">>)>>),
                                    Str(<<WS, "CS", WS>>)>>)>>)
CertColumn == Div("col", <<CertItem(<<"CKA">>), CertItem(<<"AWS", WS, "SA">>)>>)
SecEducation == Section(Some(SEC_EDUCATION),
                        <<Div("two-column", <<EduColumn, Gap, CertColumn>>)>>)
SecExperience(jobs) == Section(Some(<<WS>> \o SEC_EXPERIENCE \o <<WS>>), jobs)
SecMilitary(jobs) == Section(Some(SEC_MILITARY), jobs)
DefaultSections ==
    <<SecExperience(<<JobFull>>), SecMilitary(<<JobMilitary>>), SecEducation>>

SectionPool ==
    {SecExperience(<<JobFull>>),
     SecExperience(<<JobNoCompany, JobFull>>),
     SecMilitary(<<JobMilitary>>),
     SecEducation,
     Section(Some(SEC_EDUCATION),
             <<Div("two-column", <<CertColumn, EduColumn>>)>>),
     Section(Some(SEC_EDUCATION), <<Div("two-column", <<EduColumn>>)>>),
     Section(Some(SEC_EDUCATION), <<EduColumn, CertColumn>>),
     Section(None, <<JobFull>>),
     Section(Some(SEC_EXPERIENCE \o <<WS, "(cont.)">>), <<JobNoCompany>>)}

ResumeSoup(header, skills, sections) == Soup(header \o skills \o sections)
DefaultResume == ResumeSoup(DefaultHeader, DefaultSkills, DefaultSections)

\* The resume files: the default file with its header, its skills grid, the
\* jobs of its experience section (a list of jobs, or one job of every
\* shape), or its whole list of sections varied.
ResumeInputs ==
    {ResumeSoup(h, DefaultSkills, DefaultSections) : h \in HeaderSet}
    \cup {ResumeSoup(DefaultHeader, s, DefaultSections) : s \in SkillsSet}
    \cup {ResumeSoup(DefaultHeader, DefaultSkills,
                     <<SecExperience(js), SecMilitary(<<JobMilitary>>),
                       SecEducation>>) : js \in SeqUpTo(JobPool, MaxJobs)}
    \cup {ResumeSoup(DefaultHeader, DefaultSkills,
                     <<SecExperience(<<j>>), SecMilitary(<<JobMilitary>>),
                       SecEducation>>) : j \in JobSubsetPool}
    \cup {ResumeSoup(DefaultHeader, DefaultSkills, ss) :
              ss \in SeqUpTo(SectionPool, MaxSections)}

BadgeSpan == Span("company-badge", <<"NEUROWORKS">>)
RecipientKidPool ==
    {BadgeSpan,
     El("br", {}, <<>>),
     El("strong", {}, <<Str(<<"Acme">>)>>),
     Str(<<WS, "Acme", WS>>),
     Gap,
     Str(<<"12", WS, "Main", WS, "St">>)}
Recipient(kids) == Div("recipient", kids)
DefaultRecipient ==
    Recipient(<<BadgeSpan, Gap, El("strong", {}, <<Str(<<"Acme">>)>>),
                El("br", {}, <<>>), Str(<<WS, "Hiring", WS, "Team", WS>>)>>)
DateDiv == DivT("date", <<"March", WS, "3">>)
SalutationDiv == DivT("salutation", <<"Dear", WS, "team,">>)
ParaPool ==
    {El("p", {}, <<Str(<<"I", WS, "apply.">>)>>),
     El("p", {}, <<Str(<<WS, "I", WS>>), El("em", {}, <<Str(<<"fit">>)>>)>>)}
Body(kids) == Div("body", kids)
DefaultBody == Body(<<El("p", {}, <<Str(<<"I", WS, "apply.">>)>>)>>)
RegardsDiv == DivT("regards", <<"Regards,">>)
SignatureDiv == DivT("signature", <<"Jane", WS, "Doe">>)
CredentialDiv == DivT("credential", <<"CKA">>)
ClosingSet ==
    {None}
    \cup {Some(Div("closing", r \o g \o c)) :
              r \in {None, Some(RegardsDiv)}, g \in {None, Some(SignatureDiv)},
              c \in {None, Some(CredentialDiv)}}
DefaultClosing ==
    Some(Div("closing", <<RegardsDiv, SignatureDiv, CredentialDiv>>))

Content(date, recipient, salutation, body, closing) ==
    Some(Div("content", date \o recipient \o salutation \o body \o closing))
CoverSoup(header, content) == Soup(header \o content)
DefaultCover ==
    CoverSoup(DefaultHeader,
              Content(Some(DateDiv), Some(DefaultRecipient), Some(SalutationDiv),
                      Some(DefaultBody), DefaultClosing))

\* The cover-letter files: the default file with its header, the presence of
\* each part of its content block, the children of its recipient block, or
\* the paragraphs of its body varied.
CoverInputs ==
    {CoverSoup(h, Content(Some(DateDiv), Some(DefaultRecipient),
                          Some(SalutationDiv), Some(DefaultBody),
                          DefaultClosing)) : h \in HeaderSet}
    \cup {CoverSoup(DefaultHeader, None)}
    \cup {CoverSoup(DefaultHeader, Content(d, r, s, b, c)) :
              d \in {None, Some(DateDiv)},
              r \in {None, Some(DefaultRecipient)},
              s \in {None, Some(SalutationDiv)},
              b \in {None, Some(DefaultBody)},
              c \in ClosingSet}
    \cup {CoverSoup(DefaultHeader,
                    Content(Some(DateDiv), Some(Recipient(k)),
                            Some(SalutationDiv), Some(DefaultBody),
                            DefaultClosing)) :
              k \in SeqUpTo(RecipientKidPool, MaxRecip)}
    \cup {CoverSoup(DefaultHeader,
                    Content(Some(DateDiv), Some(DefaultRecipient),
                            Some(SalutationDiv), Some(Body(k)),
                            DefaultClosing)) :
              k \in SeqUpTo(ParaPool, MaxParas)}

Inputs(p) == IF p = "resume" THEN ResumeInputs ELSE CoverInputs
DefaultInput(p) == IF p = "resume" THEN DefaultResume ELSE DefaultCover

\* The command lines: no argument, the input path, both paths.
ArgvSet == {<<>>, <<"in.html">>, <<"in.html", "out.docx">>}

\* ------------------------------------------------------------------------
\* One run of a command line
\* ------------------------------------------------------------------------
VARIABLES
    prog,      \* which script runs: "resume" or "cover"
    argv,      \* sys.argv[1:]
    file,      \* the parsed content of the file at html_path, None if missing
    pc,        \* the statement the run is at
    data,      \* the dictionary the extractor returned, None before
    doc,       \* the blocks of the python-docx document built so far
    outfile,   \* what doc.save wrote: None, or the path and the document
    stdout,    \* the lines printed
    err,       \* the uncaught exception that ended the run, "" if none
    exitcode   \* the exit status, -1 while the run has not ended

vars == <<prog, argv, file, pc, data, doc, outfile, stdout, err, exitcode>>

\* `sys.argv[1] if len(sys.argv) > 1 else "resume.html"` (and the same line of
\* the cover-letter script)
html_path ==
    IF Len(argv) > 0 THEN argv[1]
    ELSE IF prog = "resume" THEN "resume.html" ELSE "neuroworks.html"

\* `sys.argv[2] if len(sys.argv) > 2 else "resume.docx"`
output_path ==
    IF Len(argv) > 1 THEN argv[2]
    ELSE IF prog = "resume" THEN "resume.docx" ELSE "neuroworks.docx"

Init ==
    /\ prog \in {"resume", "cover"}
    /\ argv \in ArgvSet
    /\ file \in {None} \cup {Some(s) : s \in IF argv = <<>> THEN Inputs(prog)
                                             ELSE {DefaultInput(prog)}}
    /\ pc = "start"
    /\ data = None
    /\ doc = <<>>
    /\ outfile = None
    /\ stdout = <<>>
    /\ err = ""
    /\ exitcode = -1

\* A variant of status_of_exception: the failure is reported as success.
status_always_zero(e) == 0

\* The exit status of an interpreter ended by an uncaught exception.
status_of_exception(e) == 1

\* An exception nobody catches: the traceback is printed on stderr and the
\* interpreter exits; nothing else of the run happens.
Raise(e) ==
    /\ pc' = "done"
    /\ err' = e
    /\ exitcode' = status_of_exception(e)
    /\ UNCHANGED <<prog, argv, file, data, doc, outfile, stdout>>

\* A variant of Goto in which the statement also clears data["name"].
Goto_clearing_name(next, newdoc) ==
    /\ pc' = next
    /\ doc' = newdoc
    /\ data' = Some([Val(data) EXCEPT !.name = <<>>])
    /\ UNCHANGED <<prog, argv, file, outfile, stdout, err, exitcode>>

\* A statement of build_docx that went through: the document grows.
Goto(next, newdoc) ==
    /\ pc' = next
    /\ doc' = newdoc
    /\ UNCHANGED <<prog, argv, file, data, outfile, stdout, err, exitcode>>

\* d[k] for every k of keys is defined (no KeyError).
HasKeys(d, keys) == keys \subseteq DOMAIN d
JobKeys == {"title", "company", "date", "bullets"}
JobsHaveKeys(jobs) == \A i \in 1..Len(jobs) : HasKeys(jobs[i], JobKeys)

\* `data = <the extractor>(html_path)`: data is bound when the call returns;
\* the exception it raised otherwise ends the run.
bind_data(r, next) ==
    IF r.exc = ""
    THEN /\ data' = Some(r.val)
         /\ pc' = next
         /\ UNCHANGED <<prog, argv, file, doc, outfile, stdout, err, exitcode>>
    ELSE Raise(r.exc)

resume_main_parse ==
    /\ pc = "start" /\ prog = "resume"
    /\ bind_data(parse_resume(file), "r_header")

resume_build_header ==
    /\ pc = "r_header"
    /\ IF HasKeys(Val(data), {"name", "title", "contacts"})
       THEN Goto("r_skills", resume_header(<<>>, Val(data)))
       ELSE Raise("KeyError")

resume_build_skills ==
    /\ pc = "r_skills"
    /\ IF HasKeys(Val(data), {"skills"})
       THEN Goto("r_jobs", resume_key_skills(doc, Val(data)))
       ELSE Raise("KeyError")

resume_build_experience ==
    /\ pc = "r_jobs"
    /\ IF HasKeys(Val(data), {"jobs"}) /\ JobsHaveKeys(Val(data).jobs)
       THEN Goto("r_military", resume_experience(doc, Val(data)))
       ELSE Raise("KeyError")

resume_build_military ==
    /\ pc = "r_military"
    /\ IF HasKeys(Val(data), {"military"}) /\ JobsHaveKeys(Val(data).military)
       THEN Goto("r_education", resume_military(doc, Val(data)))
       ELSE Raise("KeyError")

resume_build_education ==
    /\ pc = "r_education"
    /\ IF HasKeys(Val(data), {"education"})
       THEN Goto("r_save", resume_education(doc, Val(data)))
       ELSE Raise("KeyError")

\* `doc.save(output_path)`: the one write of the run.  Whether the destination
\* can be written is the environment's choice.
doc_save(next) ==
    \E writable \in BOOLEAN :
        IF writable
        THEN /\ outfile' = Some([path |-> output_path, doc |-> doc])
             /\ pc' = next
             /\ UNCHANGED <<prog, argv, file, data, doc, stdout, err, exitcode>>
        ELSE Raise("PermissionError")

resume_save == pc = "r_save" /\ doc_save("r_print")

\* `print(f"Generated {output_path}")`, after which the script ends.
print_generated ==
    /\ stdout' = Append(stdout, <<"Generated", output_path>>)
    /\ pc' = "done"
    /\ exitcode' = 0
    /\ UNCHANGED <<prog, argv, file, data, doc, outfile, err>>

resume_main_print == pc = "r_print" /\ print_generated

\* `data = parse_cover_letter(html_path)`
cover_main_parse ==
    /\ pc = "start" /\ prog = "cover"
    /\ bind_data(parse_cover_letter(file), "c_header")

cover_build_header ==
    /\ pc = "c_header"
    /\ IF HasKeys(Val(data), {"name", "title", "contacts"})
       THEN Goto("c_date", cover_header(<<>>, Val(data)))
       ELSE Raise("KeyError")

cover_build_date ==
    /\ pc = "c_date"
    /\ IF HasKeys(Val(data), {"date"})
       THEN Goto("c_recipient", cover_date(doc, Val(data)))
       ELSE Raise("KeyError")

cover_build_recipient ==
    /\ pc = "c_recipient"
    /\ IF HasKeys(Val(data), {"badge", "recipient_lines"})
       THEN Goto("c_salutation", cover_recipient(doc, Val(data)))
       ELSE Raise("KeyError")

cover_build_salutation ==
    /\ pc = "c_salutation"
    /\ IF HasKeys(Val(data), {"salutation"})
       THEN Goto("c_body", cover_salutation(doc, Val(data)))
       ELSE Raise("KeyError")

cover_build_body ==
    /\ pc = "c_body"
    /\ IF HasKeys(Val(data), {"paragraphs"})
       THEN Goto("c_closing", cover_body(doc, Val(data)))
       ELSE Raise("KeyError")

cover_build_closing ==
    /\ pc = "c_closing"
    /\ IF HasKeys(Val(data), {"regards", "signature", "credential"})
       THEN Goto("c_footer", cover_closing(doc, Val(data)))
       ELSE Raise("KeyError")

cover_build_footer == pc = "c_footer" /\ Goto("c_save", cover_footer(doc))

cover_save == pc = "c_save" /\ doc_save("c_print")

cover_main_print == pc = "c_print" /\ print_generated

Next ==
    \/ resume_main_parse
    \/ resume_build_header
    \/ resume_build_skills
    \/ resume_build_experience
    \/ resume_build_military
    \/ resume_build_education
    \/ resume_save
    \/ resume_main_print
    \/ cover_main_parse
    \/ cover_build_header
    \/ cover_build_date
    \/ cover_build_recipient
    \/ cover_build_salutation
    \/ cover_build_body
    \/ cover_build_closing
    \/ cover_build_footer
    \/ cover_save
    \/ cover_main_print

Spec == Init /\ [][Next]_vars

\* ------------------------------------------------------------------------
\* Properties
\* ------------------------------------------------------------------------
\* The run has not entered build_docx: no document, no file, nothing printed.
NothingRendered ==
    /\ doc = <<>>
    /\ outfile = None
    /\ stdout = <<>>
    /\ pc \in {"start", "done"}

\* The input file exists and has no header block.
HeaderAbsent == file # None /\ find(Val(file), "div", "header") = None

\* C1: in both pipelines, an input without a header block makes the run
\* abort during extraction: no record is bound, build_docx is never entered,
\* so doc.save is never reached and no output file is created.
C1_NoHeaderNoOutput ==
    HeaderAbsent =>
        /\ data = None
        /\ NothingRendered
        /\ (pc = "done" => err = "AttributeError" /\ exitcode # 0)

\* A run on a file without header block that has ended.
C1_Witness == HeaderAbsent /\ pc = "done"

\* The contact paragraph of the header table (its third paragraph).
ContactRuns == doc[1].cells[<<0, 0>>][3].runs

\* C2: in both renderers, for a contact list of length N the contact line
\* holds exactly the N contacts in order with exactly one spacer run between
\* two adjacent ones: 2N-1 runs for N >= 1, none for N = 0, no spacer first
\* or last.
C2_ContactLine ==
    (data # None /\ doc # <<>>) =>
        LET c == Val(data).contacts
            N == Len(c)
        IN  /\ Len(ContactRuns) = (IF N = 0 THEN 0 ELSE 2 * N - 1)
            /\ \A k \in 1..N : ContactRuns[2 * k - 1].text = c[k]
            /\ \A k \in 1..(N - 1) : ContactRuns[2 * k].text = SPACER
            /\ \A k \in 1..N : c[k] # SPACER

\* The header was rendered from a list of at least two contacts.
C2_Witness ==
    /\ data # None /\ doc # <<>>
    /\ Len(Val(data).contacts) >= 2
    /\ Len(ContactRuns) = 2 * Len(Val(data).contacts) - 1

\* The positions in d of the section headings (bordered paragraphs) that
\* read `text`.
HeadingAt(d, text) ==
    {i \in 1..Len(d) : /\ d[i].kind = "p"
                       /\ d[i].border # ""
                       /\ Len(d[i].runs) = 1
                       /\ d[i].runs[1].text = text}

\* The blocks between the heading `text` and the heading `next` (or the end of
\* the document when `next` is not there yet).
Region(d, text, next) ==
    LET from == CHOOSE i \in HeadingAt(d, text) : TRUE
        to == IF HeadingAt(d, next) = {} THEN Len(d)
              ELSE (CHOOSE i \in HeadingAt(d, next) : TRUE) - 1
    IN  SubSeq(d, from + 1, to)

\* The positions of the tables of a sequence of blocks, ascending.
TablesOf(seg) ==
    SelectSeq([i \in 1..Len(seg) |-> i], LAMBDA i : seg[i].kind = "tbl")

\* The k-th job block of seg: its header-row table and the paragraphs up to
\* the next table.
JobBlock(seg, k) ==
    LET tbl == TablesOf(seg)
        last == IF k < Len(tbl) THEN tbl[k + 1] - 1 ELSE Len(seg)
    IN  [row |-> seg[tbl[k]], bullets |-> SubSeq(seg, tbl[k] + 1, last)]

\* Block b shows job j: title, " | " and company when there is a company,
\* the date in the right cell, and the bullets, all of them, in order.
ShowsJob(b, j) ==
    LET left == b.row.cells[<<0, 0>>][1].runs
        right == b.row.cells[<<0, 1>>][1].runs
    IN  /\ b.row.rows = 1 /\ b.row.cols = 2
        /\ Len(left) = (IF j.company = <<>> THEN 1 ELSE 3)
        /\ left[1].text = j.title
        /\ j.company # <<>> => left[2].text = SEPARATOR /\ left[3].text = j.company
        /\ Len(right) = 1 /\ right[1].text = j.date
        /\ Len(b.bullets) = Len(j.bullets)
        /\ \A i \in 1..Len(j.bullets) :
               /\ b.bullets[i].kind = "p"
               /\ Len(b.bullets[i].runs) = 2
               /\ b.bullets[i].runs[1].text = TRIANGLE
               /\ b.bullets[i].runs[2].text = j.bullets[i]

H_EXPERIENCE == Lit("PROFESSIONAL EXPERIENCE")
H_MILITARY == Lit("MILITARY SERVICE")
H_EDUCATION == Lit("EDUCATION & CERTIFICATIONS")

ExperienceRendered == prog = "resume" /\ HeadingAt(doc, H_EXPERIENCE) # {}
ExperienceRegion == Region(doc, H_EXPERIENCE, H_MILITARY)

\* C3: for a job list of length N the experience section holds exactly N job
\* blocks, in the order of the list, the k-th showing the title, company,
\* date and every bullet of the k-th job, and no bullet stands before the
\* first header row.
C3_JobBlocks ==
    ExperienceRendered =>
        LET jobs == Val(data).jobs
            seg == ExperienceRegion
        IN  /\ Len(TablesOf(seg)) = Len(jobs)
            /\ seg # <<>> => seg[1].kind = "tbl"
            /\ \A k \in 1..Len(jobs) : ShowsJob(JobBlock(seg, k), jobs[k])

\* Two different jobs with bullets were rendered.
C3_Witness ==
    /\ ExperienceRendered
    /\ Len(Val(data).jobs) = 2
    /\ Val(data).jobs[1] # Val(data).jobs[2]
    /\ Val(data).jobs[1].bullets # <<>>
    /\ Val(data).jobs[2].bullets # <<>>

SkillsRendered == prog = "resume" /\ Len(doc) >= 5
SkillsTable == doc[4]

\* C4: for a skills list of length N the grid has ceil(N/2) rows and 2
\* columns; the cell in row r, column c holds skill number 2r+c (from 0) and
\* nothing else, and is empty when 2r+c >= N (only the last cell, N odd).
C4_SkillsGrid ==
    SkillsRendered =>
        LET skills == Val(data).skills
            N == Len(skills)
            t == SkillsTable
        IN  /\ t.kind = "tbl" /\ t.cols = 2
            /\ 2 * t.rows >= N /\ 2 * t.rows <= N + 1
            /\ DOMAIN t.cells = (0..(t.rows - 1)) \X (0..1)
            /\ \A rc \in DOMAIN t.cells :
                   LET i == 2 * rc[1] + rc[2]
                       ps == t.cells[rc]
                   IN  /\ Len(ps) = 1
                       /\ IF i < N
                          THEN /\ Len(ps[1].runs) = 2
                               /\ ps[1].runs[1].text = CHECK_MARK
                               /\ ps[1].runs[2].text = skills[i + 1]
                          ELSE /\ ps[1].runs = <<>>
                               /\ i = N /\ rc[2] = 1
            /\ \A i \in 0..(N - 1) : <<i \div 2, i % 2>> \in DOMAIN t.cells

\* A grid for an odd number of skills (3 or more) was rendered.
C4_Witness ==
    /\ SkillsRendered
    /\ Len(Val(data).skills) >= 3
    /\ Len(Val(data).skills) % 2 = 1

\* The default cover letter with every recipient block of the enumeration
\* that has no company badge.
CoversWithoutBadge ==
    {CoverSoup(DefaultHeader,
               Content(Some(DateDiv), Some(Recipient(k)), Some(SalutationDiv),
                       Some(DefaultBody), DefaultClosing)) :
         k \in SeqUpTo(RecipientKidPool \ {BadgeSpan}, MaxRecip)}

\* The default resume with every list of jobs of the enumeration in which
\* each job has its job-header (title, company, date, list may be missing).
ResumesWithOptionalJobParts ==
    {ResumeSoup(DefaultHeader, DefaultSkills,
                <<SecExperience(js), SecMilitary(<<JobMilitary>>),
                  SecEducation>>) :
         js \in SeqUpTo(JobPool \ {JobNoHeader}, MaxJobs)}

NoBadgeInput == prog = "cover" /\ file # None /\ Val(file) \in CoversWithoutBadge
OptionalJobPartsInput ==
    prog = "resume" /\ file # None /\ Val(file) \in ResumesWithOptionalJobParts

\* The positions of the paragraphs made of one 9pt run: only the badge
\* paragraph is one.
BadgeParagraphs(d) ==
    {i \in 1..Len(d) : /\ d[i].kind = "p"
                       /\ Len(d[i].runs) = 1
                       /\ d[i].runs[1].size = 9}

\* The run ended without exception: exit 0 and the document saved.
\* Otherwise the only exception is the one of an unwritable destination.
CompletesAndSaves ==
    /\ err \in {"", "PermissionError"}
    /\ (pc = "done" /\ err = "") =>
           /\ exitcode = 0
           /\ outfile = Some([path |-> output_path, doc |-> doc])

\* The job blocks of the first section block of the file (the experience
\* section of ResumesWithOptionalJobParts).
FirstSectionJobs == find_all(Head(find_all(Val(file), "div", "section")), "div", "job")

\* C5: missing optional fields give "" and are left out of the document, and
\* the run goes through.  Without company badge: badge = "" and no badge
\* paragraph.  A job without company span: company = "" and a header row
\* with the title run alone, no " | " and no company run.
C5_OptionalFieldsOmitted ==
    /\ (NoBadgeInput /\ pc # "start") =>
           /\ data # None
           /\ Val(data).badge = <<>>
           /\ BadgeParagraphs(doc) = {}
           /\ CompletesAndSaves
    /\ (OptionalJobPartsInput /\ pc # "start") =>
           /\ data # None
           /\ CompletesAndSaves
           /\ LET divs == FirstSectionJobs
                  jobs == Val(data).jobs
              IN  /\ Len(jobs) = Len(divs)
                  /\ \A k \in 1..Len(divs) :
                         find(divs[k], "span", "job-company") = None =>
                             /\ jobs[k].company = <<>>
                             /\ ExperienceRendered =>
                                    LET left == JobBlock(ExperienceRegion, k)
                                                    .row.cells[<<0, 0>>][1].runs
                                    IN  /\ Len(left) = 1
                                        /\ left[1].text = jobs[k].title
                                        /\ left[1].text # SEPARATOR

\* A resume with a job that has no company span went through to exit 0.
C5_Witness ==
    /\ OptionalJobPartsInput
    /\ pc = "done" /\ exitcode = 0 /\ outfile # None
    /\ \E k \in 1..Len(FirstSectionJobs) :
           find(FirstSectionJobs[k], "span", "job-company") = None

\* The recipient step of the cover letter is behind.
RecipientRendered ==
    /\ prog = "cover" /\ doc # <<>>
    /\ pc \notin {"c_date", "c_recipient"}

\* The paragraph of the i-th recipient line: after the header table, the date
\* and the badge paragraph if there is one.
RecipientParagraph(i) ==
    doc[2 + (IF Val(data).badge # <<>> THEN 1 ELSE 0) + i]

\* C6: the first recipient line is emphasized (bold, primary color) and every
\* later line is plain, whatever the lines' texts are.
C6_OnlyFirstLineEmphasized ==
    RecipientRendered =>
        \A i \in 1..Len(Val(data).recipient_lines) :
            LET r == RecipientParagraph(i).runs[1]
            IN  /\ r.text = Val(data).recipient_lines[i]
                /\ r.bold <=> (i = 1)
                /\ (r.color = "PRIMARY") <=> (i = 1)

\* Whether the file has a section block whose section-title reads t.
SectionTitled(soup, t) ==
    LET secs == find_all(soup, "div", "section")
    IN  \E i \in 1..Len(secs) :
            LET title_el == find(secs[i], "div", "section-title")
            IN  title_el # None /\ get_text(Val(title_el), <<>>) = t

\* One of the three named section blocks of the resume is absent.
ResumeSectionMissing ==
    /\ prog = "resume" /\ file # None
    /\ \E t \in {SEC_EXPERIENCE, SEC_MILITARY, SEC_EDUCATION} :
           ~SectionTitled(Val(file), t)

\* The content block of the cover letter, or its date, recipient,
\* salutation, body or closing, is absent.
CoverPartMissing ==
    /\ prog = "cover" /\ file # None
    /\ LET content == find(Val(file), "div", "content")
       IN  \/ content = None
           \/ \E c \in {"date", "recipient", "salutation", "body", "closing"} :
                  find(Val(content), "div", c) = None

ExtractionFailed ==
    /\ data = None
    /\ NothingRendered
    /\ pc = "done" => err = "AttributeError"

ResumeWithoutSections ==
    /\ prog = "resume" /\ file # None
    /\ parse_header(Val(file)).exc = ""
    /\ find(Val(file), "div", "skills-grid") # None
    /\ find_all(Val(file), "div", "section") = <<>>

C8_GeneratedMessage ==
    /\ Len(stdout) <= 1
    /\ stdout # <<>> =>
           /\ stdout = <<<<"Generated", output_path>>>>
           /\ data # None
           /\ outfile = Some([path |-> output_path, doc |-> doc])
    /\ pc = "done" =>
           /\ exitcode \in {0, 1}
           /\ exitcode = 0 <=> err = ""
           /\ exitcode = 0 => Len(stdout) = 1
           /\ exitcode # 0 => stdout = <<>>
    /\ (pc = "done" /\ (file = None \/ data = None \/ outfile = None)) =>
           exitcode # 0 /\ stdout = <<>>
    /\ pc # "done" => exitcode = -1 /\ stdout = <<>>

\* A run that failed at doc.save: extracted, rendered, nothing written.
C8_Witness ==
    /\ pc = "done" /\ data # None /\ doc # <<>> /\ outfile = None
    /\ err = "PermissionError"

ResumeKeys ==
    {"name", "title", "contacts", "skills", "jobs", "military", "education"}
CoverKeys ==
    {"name", "title", "contacts", "date", "badge", "recipient_lines",
     "salutation", "paragraphs", "regards", "signature", "credential"}
\* A string (a sequence of tokens), the empty one included.
IsText(t) == DOMAIN t = 1..Len(t)
IsJob(j) ==
    /\ HasKeys(j, JobKeys)
    /\ IsText(j.title) /\ IsText(j.company) /\ IsText(j.date)
    /\ \A i \in 1..Len(j.bullets) : IsText(j.bullets[i])

\* C10: every record the extractors return has every field build_docx reads
\* (the education lists are read with a default), each text field a string,
\* and no step of build_docx fails on an absent field.
C10_FieldsDefined ==
    /\ err # "KeyError"
    /\ data # None =>
           LET d == Val(data)
           IN  /\ IsText(d.name) /\ IsText(d.title)
               /\ \A i \in 1..Len(d.contacts) : IsText(d.contacts[i])
               /\ IF prog = "resume"
                  THEN /\ HasKeys(d, ResumeKeys)
                       /\ \A i \in 1..Len(d.skills) : IsText(d.skills[i])
                       /\ \A i \in 1..Len(d.jobs) : IsJob(d.jobs[i])
                       /\ \A i \in 1..Len(d.military) : IsJob(d.military[i])
                       /\ DOMAIN d.education \in {{}, {"left", "right"}}
                  ELSE /\ HasKeys(d, CoverKeys)
                       /\ IsText(d.date) /\ IsText(d.badge)
                       /\ IsText(d.salutation) /\ IsText(d.regards)
                       /\ IsText(d.signature) /\ IsText(d.credential)

\* A record with a job lacking its company and without education lists was
\* rendered to the end.
C10_Witness ==
    /\ prog = "resume" /\ data # None /\ pc = "done" /\ exitcode = 0
    /\ DOMAIN Val(data).education = {}
    /\ \E i \in 1..Len(Val(data).jobs) : Val(data).jobs[i].company = <<>>

\* The resumes whose experience section is varied, the rest being complete.
ResumesWithJobList ==
    {ResumeSoup(DefaultHeader, DefaultSkills,
                <<SecExperience(js), SecMilitary(<<JobMilitary>>),
                  SecEducation>>) :
         js \in SeqUpTo(JobPool, MaxJobs) \cup {<<j>> : j \in JobSubsetPool}}
JobListInput == prog = "resume" /\ file # None /\ Val(file) \in ResumesWithJobList

\* The text of the span of class cls of a job block, "" without such span.
SpanText(div, cls) ==
    LET el == find(div, "span", cls)
    IN  IF el = None THEN <<>> ELSE strip(Val(el).kids[1].text)
\* The texts of the list items of a job block, in source order.
BulletTexts(div) ==
    LET lis == find_all(div, "li", "")
    IN  [i \in 1..Len(lis) |-> strip(lis[i].kids[1].text)]
\* j is the job entry the claim describes for the job block div.
IsEntryOf(j, div) ==
    j = [title |-> SpanText(div, "job-title"),
         company |-> SpanText(div, "job-company"),
         date |-> SpanText(div, "job-date"),
         bullets |-> BulletTexts(div)]
HasJobHeader(div) == find(div, "div", "job-header") # None
\* Whether the jobs list is the list of the entries of the job blocks.
JobsAreEntriesOf(jobs, divs) ==
    /\ Len(jobs) = Len(divs)
    /\ \A k \in 1..Len(divs) : IsEntryOf(jobs[k], divs[k])

\* C11 as stated: _parse_job never fails, whatever sub-element of the job
\* block is missing, the job-header included: every job block gives an entry
\* with the span texts or "" and its bullets in source order.
C11_ParseJobNeverFails ==
    (JobListInput /\ pc # "start") =>
        /\ data # None
        /\ JobsAreEntriesOf(Val(data).jobs, FirstSectionJobs)

\* C11 amended: with its job-header present, a job block with any subset of
\* the title, company and date spans, with or without bullet list, gives an
\* entry with the span texts or "" and the bullets in source order; a job
\* block without job-header makes _parse_job raise AttributeError, and the
\* extraction fails.
C11_ParseJobWithHeader ==
    (JobListInput /\ pc # "start") =>
        IF \A k \in 1..Len(FirstSectionJobs) : HasJobHeader(FirstSectionJobs[k])
        THEN /\ data # None
             /\ JobsAreEntriesOf(Val(data).jobs, FirstSectionJobs)
        ELSE /\ data = None
             /\ err = "AttributeError"
             /\ NothingRendered

\* A job block with an empty job-header and no bullet list was parsed into
\* an entry of empty texts.
C11_Witness ==
    /\ JobListInput /\ data # None /\ pc = "done"
    /\ \E k \in 1..Len(FirstSectionJobs) :
           /\ HasJobHeader(FirstSectionJobs[k])
           /\ find(FirstSectionJobs[k], "span", "") = None
           /\ find(FirstSectionJobs[k], "ul", "job-bullets") = None
           /\ Val(data).jobs[k] =
                  [title |-> <<>>, company |-> <<>>, date |-> <<>>,
                   bullets |-> <<>>]

\* The record is bound: the extractor returned.
Extracted == data # None
\* The value the extractor returns for the input file of the run.
ExtractorResult ==
    IF prog = "resume" THEN parse_resume(file) ELSE parse_cover_letter(file)
\* The whole document build_docx makes of record d, each part once.
RenderedOnce(d) ==
    IF prog = "resume"
    THEN resume_education(resume_military(resume_experience(
             resume_key_skills(resume_header(<<>>, d), d), d), d), d)
    ELSE cover_footer(cover_closing(cover_body(cover_salutation(
             cover_recipient(cover_date(cover_header(<<>>, d), d), d), d), d), d))
\* s is a proper prefix of t.
ProperPrefix(s, t) == Len(s) < Len(t) /\ SubSeq(t, 1, Len(s)) = s

\* In every state: nothing is rendered, saved or printed without the record;
\* the record is the value the extractor returned; a document that reached
\* doc.save is one rendering of that record.
RecordState ==
    /\ (doc # <<>> \/ outfile # None \/ stdout # <<>>) => Extracted
    /\ pc \notin {"start", "done"} => Extracted
    /\ Extracted =>
           /\ ExtractorResult.exc = ""
           /\ data = Some(ExtractorResult.val)
           /\ ProperPrefix(doc, RenderedOnce(Val(data))) \/ doc = RenderedOnce(Val(data))
           /\ (outfile # None \/ pc \in {"r_save", "c_save"}) =>
                  doc = RenderedOnce(Val(data))
\* In every step: a bound record stays as it is; the record is bound by the
\* first step of the run only; the document grows only under a bound record.
RecordStep ==
    /\ Extracted => data' = data
    /\ data' # data => pc = "start" /\ doc = <<>> /\ doc' = <<>>
    /\ doc' # doc => Extracted /\ ProperPrefix(doc, doc')

\* C12: the record is built by the extractor before the first renderer
\* operation, is rendered exactly once, and is never modified after the
\* extraction returned: at every step of rendering and at the end of the run
\* it equals the value the extractor returned.
C12_RecordLifecycle == [][RecordStep]_vars /\ []RecordState

\* A run that rendered its record, saved the document and ended.
C12_Witness ==
    /\ Extracted /\ pc = "done" /\ exitcode = 0
    /\ outfile = Some([path |-> output_path, doc |-> RenderedOnce(Val(data))])
    /\ data = Some(ExtractorResult.val)

\* The section blocks of the resume file, in document order.
FileSections == find_all(Val(file), "div", "section")
\* The stripped text of the section-title of a section block, None without.
TitleOf(sec) ==
    LET t == find(sec, "div", "section-title")
    IN  IF t = None THEN None ELSE Some(strip(Val(t).kids[1].text))
RECURSIVE JobDivsTitled(_, _)
\* The job blocks of the section blocks of secs titled t, in document order.
JobDivsTitled(secs, t) ==
    IF secs = <<>> THEN <<>>
    ELSE (IF TitleOf(Head(secs)) = Some(t)
          THEN find_all(Head(secs), "div", "job") ELSE <<>>)
         \o JobDivsTitled(Tail(secs), t)
\* The section blocks titled "Education & Certifications".
EducationSections ==
    SelectSeq(FileSections, LAMBDA sec : TitleOf(sec) = Some(SEC_EDUCATION))
\* The two lists of the cert-item texts of an education section.
EducationOf(sec) ==
    LET cols == find_all_direct(Val(find(sec, "div", "two-column")), "div")
    IN  [left |-> cert_items(cols[1]), right |-> cert_items(cols[2])]

\* C13: the jobs list holds the entries of the job blocks of the sections
\* titled exactly "Professional Experience", the military list those of
\* the sections titled exactly "Military Service", each in document order
\* across the sections of that title; sections without title or with another
\* title give to neither; the education lists are those of the last section
\* titled "Education & Certifications".
C13_RoutingByTitle ==
    (prog = "resume" /\ Extracted) =>
        /\ JobsAreEntriesOf(Val(data).jobs,
                            JobDivsTitled(FileSections, SEC_EXPERIENCE))
        /\ JobsAreEntriesOf(Val(data).military,
                            JobDivsTitled(FileSections, SEC_MILITARY))
        /\ Val(data).education =
               (IF EducationSections = <<>> THEN <<>>
                ELSE EducationOf(EducationSections[Len(EducationSections)]))

\* Two sections titled "Professional Experience" were extracted: the jobs of
\* the second follow those of the first.
C13_Witness ==
    /\ prog = "resume" /\ Extracted
    /\ Len(SelectSeq(FileSections,
                     LAMBDA sec : TitleOf(sec) = Some(SEC_EXPERIENCE))) = 2
    /\ Len(Val(data).jobs) > Len(find_all(FileSections[1], "div", "job"))
    /\ Len(find_all(FileSections[2], "div", "job")) > 0

=============================================================================
